---- MODULE Spec2Model ----
(***************************************************************************)
(* chipper: tag-routed logging (src/chipper.py).                           *)
(*                                                                         *)
(* A Python str is modelled as a sequence of chunks (each chunk a short    *)
(* run of characters); concatenation of strings is concatenation of the    *)
(* sequences.  The chunks "\n" and " " are the whitespace characters, "_"  *)
(* is the underscore; every other chunk is a run of letters or             *)
(* punctuation without whitespace and without underscore.                  *)
(***************************************************************************)
EXTENDS Integers, Sequences, FiniteSets, TLC

\* -------------------------------------------------------------- bounds

\* longest tag list of one Log.log call
MaxTags == 2
\* longest attribute name (in chunks) looked up on a Log
MaxName == 4

\* ---------------------------------------------------------- str helpers

NL == "\n"

Range(s) == {s[i] : i \in DOMAIN s}

RECURSIVE Flatten(_)
Flatten(ss) == IF ss = << >> THEN << >> ELSE Head(ss) \o Flatten(Tail(ss))

\* str.format(**fields): every placeholder chunk is replaced by its field
StrFormat(template, fields) ==
    Flatten([i \in DOMAIN template |->
                IF template[i] \in DOMAIN fields
                THEN fields[template[i]]
                ELSE <<template[i]>>])

\* delimiter.join(items)
RECURSIVE StrJoin(_, _)
StrJoin(delimiter, items) ==
    IF items = << >> THEN << >>
    ELSE IF Len(items) = 1 THEN items[1]
    ELSE items[1] \o delimiter \o StrJoin(delimiter, Tail(items))

Whitespace == {" ", NL}

RECURSIVE LStrip(_)
LStrip(s) == IF s # << >> /\ Head(s) \in Whitespace THEN LStrip(Tail(s)) ELSE s

RECURSIVE RStrip(_)
RStrip(s) ==
    IF s # << >> /\ s[Len(s)] \in Whitespace
    THEN RStrip(SubSeq(s, 1, Len(s) - 1))
    ELSE s

\* str.strip()
StrStrip(s) == RStrip(LStrip(s))

UpperChunk(c) ==
    CASE c = "x" -> "X"
      [] c = "y" -> "Y"
      [] c = "trace" -> "TRACE"
      [] c = "default" -> "DEFAULT"
      [] OTHER -> c

\* str.upper()
StrUpper(s) == [i \in DOMAIN s |-> UpperChunk(s[i])]

\* date.strftime(format) / time.strftime(format): the rendering is fixed by
\* the value and the format string
Strftime(value, format) == <<format \o "@" \o ToString(value)>>

\* ------------------------------------------------------------ Formatter

\* default of the tag_formatter parameter: lambda tag: tag.upper().strip()
DefaultTagFormatter(tag) == StrStrip(StrUpper(tag))

\* the parameter defaults of Formatter
DefaultFormatter ==
    [ template          |-> <<"{datetime}", "{trace}", "{tags}", " :">>,
      tags_template     |-> <<"[", "{tags}", "]">>,
      tag_template      |-> <<"{tag}">>,
      tag_delimiter     |-> <<", ">>,
      date_template     |-> <<"{date}">>,
      date_format       |-> "%Y-%m-%d",
      time_template     |-> <<"{time}">>,
      time_format       |-> "%H:%M:%S",
      datetime_template |-> <<"[", "{date}", " ", "{time}", "]">>,
      file_template     |-> <<"{file}">>,
      line_template     |-> <<":", "{line}">>,
      module_template   |-> <<":", "{module}">>,
      trace_template    |-> <<"[", "{file}", "{line}", "]">> ]

\* keyword arguments file=, line=, module= that were not passed
NoTrace == [k \in {} |-> << >>]

\* a keyword argument of format_message, '' when it was not passed
Kwarg(trace, key) == IF key \in DOMAIN trace THEN trace[key] ELSE << >>

\* Formatter.format_message; self.tag_formatter is the parameter's default in
\* every Formatter constructed here
FormatMessage(self, message, handler, tags, date, time, trace) ==
    LET tags1 == [i \in DOMAIN tags |-> DefaultTagFormatter(tags[i])]
        tags2 == [i \in DOMAIN tags1 |->
                    StrFormat(self.tag_template, "{tag}" :> tags1[i])]
        tags3 == StrJoin(self.tag_delimiter, tags2)
        tags4 == StrFormat(self.tags_template, "{tags}" :> tags3)
        date1 == Strftime(date, self.date_format)
        date2 == StrFormat(self.date_template, "{date}" :> date1)
        time1 == Strftime(time, self.time_format)
        time2 == StrFormat(self.time_template, "{time}" :> time1)
        datetime == StrFormat(self.datetime_template,
                              "{date}" :> date2 @@ "{time}" :> time2)
        file == Kwarg(trace, "file")
        line == Kwarg(trace, "line")
        module == Kwarg(trace, "module")
        trace1 ==
            IF file # << >> \/ line # << >> \/ module # << >>
            THEN StrFormat(self.trace_template,
                    "{file}" :> StrFormat(self.file_template, "{file}" :> file)
                 @@ "{line}" :> StrFormat(self.line_template, "{line}" :> line)
                 @@ "{module}" :>
                        StrFormat(self.module_template, "{module}" :> module))
            ELSE << >>
    IN  StrFormat(self.template,
                  "{handler}" :> handler.name @@ "{tags}" :> tags4
               @@ "{datetime}" :> datetime @@ "{trace}" :> trace1)
        \o message

\* --------------------------------------------------------------- Target

\* Target.__init__: the resolved sinks, in the order they are attached
TargetInit(filename, stdout, stderr) ==
    [ filename |-> filename, stdout |-> stdout, stderr |-> stderr,
      targets  |-> (IF filename # "" THEN <<filename>> ELSE << >>)
                   \o (IF stdout THEN <<"stdout">> ELSE << >>)
                   \o (IF stderr THEN <<"stderr">> ELSE << >>) ]

\* Target.log: the writes done, and whether a write raised (a write on a sink
\* in `failing` raises, and the exception leaves the loop)
RECURSIVE TargetLog(_, _, _)
TargetLog(targets, message, failing) ==
    IF targets = << >>
    THEN [writes |-> << >>, attempts |-> << >>, raised |-> FALSE]
    ELSE IF Head(targets) \in failing
         THEN [writes |-> << >>, attempts |-> <<Head(targets)>>, raised |-> TRUE]
         ELSE LET rest == TargetLog(Tail(targets), message, failing)
              IN  [writes   |-> <<[sink |-> Head(targets), text |-> message]>>
                                \o rest.writes,
                   attempts |-> <<Head(targets)>> \o rest.attempts,
                   raised   |-> rest.raised]

\* -------------------------------------------------------------- Handler

\* (mutant) handle_tags without the length test
HandleTagsUnchecked(tags) == [raised |-> FALSE, tags |-> tags]

\* Handler.handle_tags: an empty tags tuple is refused
HandleTags(tags) ==
    IF Len(tags) = 0
    THEN [raised |-> TRUE, tags |-> << >>]
    ELSE [raised |-> FALSE, tags |-> tags]

\* Handler.log: render, then one Target.log of the rendering plus "\n"
HandlerLog(id, self, message, tags, date, time, trace, failing) ==
    LET text == FormatMessage(self.formatter, message, self, tags, date, time,
                              trace) \o <<NL>>
        out  == TargetLog(self.target.targets, text, failing)
    IN  [ calls    |-> <<[handler |-> id, message |-> message, tags |-> tags,
                          date |-> date, time |-> time, trace |-> trace,
                          text |-> text]>>,
          writes   |-> out.writes,
          attempts |-> out.attempts,
          raised   |-> out.raised ]

\* the module-level default_handler
DefaultHandler ==
    [ name      |-> <<"default">>,
      tags      |-> << <<"*">> >>,
      target    |-> TargetInit("", TRUE, FALSE),
      formatter |-> [DefaultFormatter EXCEPT
                        !.template = <<"{trace}", "{tags}", ":">>] ]

\* ---------------------------------------------------------------- state

VARIABLES
    objs,         \* the Handler objects constructed so far, by identity
    logHandlers,  \* Log.__handlers of the Log in use (Log.__default is
                  \* default_handler)
    failing,      \* the sinks (sys.stdout, sys.stderr, a file) whose write raises
    op,           \* the last operation and its arguments
    calls,        \* the Handler.log invocations of the last operation, in order
    writes,       \* the sink writes of the last operation, in order
    attempts,     \* the sinks write was called on in the last operation, in order
    raised        \* the exception the last operation ended with, or "none"

vars == <<objs, logHandlers, failing, op, calls, writes, attempts, raised>>

HandlerIds == {"h1", "h2"}
Sinks == {"app.log", "stdout", "stderr"}

\* ------------------------------------------------------------------ Log

DictGet(dict, key, default) == IF key \in DOMAIN dict THEN dict[key] ELSE default

\* (mutant) the inner loop without the membership test
RECURSIVE ScanHandlersUnfiltered(_, _, _)
ScanHandlersUnfiltered(hs, tag, st) ==
    IF hs = << >> THEN st
    ELSE ScanHandlersUnfiltered(Tail(hs), tag,
            [ handlers |->
                (Head(hs) :> (DictGet(st.handlers, Head(hs), << >>) \o <<tag>>))
                @@ st.handlers,
              found |-> TRUE ])

\* Log.log, the inner loop: one tag against every Handler of the sequence
RECURSIVE ScanHandlers(_, _, _)
ScanHandlers(hs, tag, st) ==
    IF hs = << >> THEN st
    ELSE LET handler == Head(hs)
             st1 == IF tag \in Range(objs[handler].tags)
                    THEN [ handlers |->
                             (handler :> (DictGet(st.handlers, handler, << >>)
                                          \o <<tag>>)) @@ st.handlers,
                           found |-> TRUE ]
                    ELSE st
         IN  ScanHandlers(Tail(hs), tag, st1)

\* Log.log, the outer loop: the dict handlers and the list unhandled
RECURSIVE ScanTags(_, _)
ScanTags(tags, st) ==
    IF tags = << >> THEN st
    ELSE LET r == ScanHandlers(logHandlers, Head(tags),
                               [handlers |-> st.handlers, found |-> FALSE])
         IN  ScanTags(Tail(tags),
                [ handlers  |-> r.handlers,
                  unhandled |-> IF r.found THEN st.unhandled
                                ELSE st.unhandled \o <<Head(tags)>> ])

Routing(tags) == ScanTags(tags, [handlers |-> << >>, unhandled |-> << >>])

\* the orders handlers.items() may yield the keys in
ItemsOrders(dict) ==
    {o \in [1..Cardinality(DOMAIN dict) -> DOMAIN dict] :
        \A i, j \in DOMAIN o : i # j => o[i] # o[j]}

NoCalls == [calls |-> << >>, writes |-> << >>, attempts |-> << >>, raised |-> FALSE]

Then(a, b) ==
    [ calls    |-> a.calls \o b.calls,
      writes   |-> a.writes \o b.writes,
      attempts |-> a.attempts \o b.attempts,
      raised   |-> b.raised ]

\* Log.log, the loop over handlers.items(): no trace keywords are passed on
RECURSIVE Dispatch(_, _, _, _, _)
Dispatch(order, handlers, message, date, time) ==
    IF order = << >> THEN NoCalls
    ELSE LET handler == Head(order)
             r == HandlerLog(handler, objs[handler], message, handlers[handler],
                             date, time, NoTrace, failing)
         IN  IF r.raised THEN r
             ELSE Then(r, Dispatch(Tail(order), handlers, message, date, time))

\* (mutant) the trace keywords are passed on to every Handler
RECURSIVE DispatchWithTrace(_, _, _, _, _, _)
DispatchWithTrace(order, handlers, message, date, time, trace) ==
    IF order = << >> THEN NoCalls
    ELSE LET handler == Head(order)
             r == HandlerLog(handler, objs[handler], message, handlers[handler],
                             date, time, trace, failing)
         IN  IF r.raised THEN r
             ELSE Then(r, DispatchWithTrace(Tail(order), handlers, message,
                                            date, time, trace))

LogLogTraceToAll(message, tags, trace, now, order) ==
    LET st == Routing(tags)
        d  == DispatchWithTrace(order, st.handlers, message, now, now, trace)
    IN  IF d.raised \/ Len(st.unhandled) = 0 THEN d
        ELSE Then(d, HandlerLog("default", DefaultHandler, message,
                                st.unhandled, now, now, trace, failing))

\* (mutant) the default Handler is invoked whatever unhandled holds
LogLogDefaultAlways(message, tags, trace, now, order) ==
    LET st == Routing(tags)
        d  == Dispatch(order, st.handlers, message, now, now)
    IN  IF d.raised THEN d
        ELSE Then(d, HandlerLog("default", DefaultHandler, message,
                                st.unhandled, now, now, trace, failing))

\* Log.log(message, *tags, **trace) at the moment `now`, with handlers.items()
\* yielding the matched Handlers in `order`
LogLog(message, tags, trace, now, order) ==
    LET st == Routing(tags)
        d  == Dispatch(order, st.handlers, message, now, now)
    IN  IF d.raised \/ Len(st.unhandled) = 0 THEN d
        ELSE Then(d, HandlerLog("default", DefaultHandler, message,
                                st.unhandled, now, now, trace, failing))

\* ------------------------------------------------------------ TaggedLog

\* str.split(sep)
RECURSIVE StrSplit(_, _)
StrSplit(s, sep) ==
    IF \A i \in DOMAIN s : s[i] # sep THEN <<s>>
    ELSE LET i == CHOOSE k \in DOMAIN s :
                      s[k] = sep /\ \A j \in 1..(k - 1) : s[j] # sep
         IN  <<SubSeq(s, 1, i - 1)>> \o StrSplit(SubSeq(s, i + 1, Len(s)), sep)

\* (mutant) the empty components are kept
GetattrTagsKeepEmpty(name) == StrSplit(name, "_")

\* Log.__getattr__: the tags of the TaggedLog an unknown name resolves to
GetattrTags(name) == SelectSeq(StrSplit(name, "_"), LAMBDA t : t # << >>)

\* the attribute names a Log has (its method log among them)
LogAttributes == {<<"log">>}

\* the frame traceback.extract_stack()[-2] of the caller
CallerTrace ==
    [file |-> <<"app.py">>, line |-> <<"42">>, module |-> <<"main">>]

\* what traceback.format_exc() returns: "None\n" when no exception is being
\* handled (the value TaggedLog.__call__ tests for), else the traceback, which
\* ends with a newline
FormatExc == {<<"None", NL>>, <<"Traceback: ValueError", NL>>}

\* TaggedLog.__call__: the arguments it calls Log.log with
TaggedLogCall(tags, message, error) ==
    IF <<"trace">> \in Range(tags)
    THEN [ message |-> IF error # <<"None", NL>>
                       THEN message \o <<NL>> \o error
                       ELSE message,
           tags    |-> tags,
           trace   |-> CallerTrace ]
    ELSE [message |-> message, tags |-> tags, trace |-> NoTrace]

\* --------------------------------------------------------------- inputs

SeqsUpTo(S, n) == UNION {[1..k -> S] : k \in 0..n}

\* the tags log calls are made with
CallTags == {<<"x">>, <<"y">>, <<"trace">>}
TagLists == SeqsUpTo(CallTags, MaxTags)

\* the tags tuples Handlers are constructed with
HandlerTags == {<< >>, << <<"x">> >>, << <<"trace">> >>, << <<"x">>, <<"trace">> >>}

Booleans == {TRUE, FALSE}
\* the arguments Targets are constructed with
TargetArgs == [filename : {"", "app.log"}, stdout : Booleans, stderr : Booleans]
\* ... and those of the Handlers a Log is given: the first writes to stdout
\* (as default_handler does), the second to stderr
LogTargetArgs(id) ==
    IF id = "h1" THEN [filename |-> "", stdout |-> TRUE, stderr |-> FALSE]
    ELSE [filename |-> "", stdout |-> FALSE, stderr |-> TRUE]

\* the main templates Formatters are constructed with
Templates ==
    { DefaultFormatter.template,
      <<"{trace}", "{tags}", ":">>,
      <<"{handler}", " ", "{tags}", NL>>,
      << >> }

Messages == {<<"boom">>, <<"boom", NL>>, << >>}
LogMessages == {<<"boom">>}
Traces == {NoTrace, CallerTrace}
Clock == {1}

\* the attribute names looked up on a Log
NameChunks == {"_", "x", "y", "trace"}
Names == (SeqsUpTo(NameChunks, MaxName) \ {<< >>}) \cup LogAttributes

NoOp ==
    [ kind |-> "init", id |-> "", name |-> << >>, message |-> << >>,
      tags |-> << >>, trace |-> NoTrace, error |-> << >>, now |-> 0,
      order |-> << >> ]

\* -------------------------------------------------------------- actions

Init ==
    /\ objs = << >>
    /\ logHandlers = << >>
    /\ failing = {}
    /\ op = NoOp
    /\ calls = << >>
    /\ writes = << >>
    /\ attempts = << >>
    /\ raised = "none"

\* no operation is recorded: the next one can be issued
Idle == op = NoOp

Outcome(result) ==
    \E r \in {result} :
        /\ calls' = r.calls
        /\ writes' = r.writes
        /\ attempts' = r.attempts
        /\ raised' = IF r.raised THEN "IOError" ELSE "none"

\* Handler(name=id, tags=tags, target=Target(**targs),
\*         formatter=Formatter(template=template))
NewHandler(id, tags, targs, template) ==
    /\ Idle
    /\ id \notin DOMAIN objs
    /\ LET t == HandleTags(tags)
       IN  /\ objs' =
                IF t.raised THEN objs
                ELSE (id :> [ name      |-> <<id>>,
                              tags      |-> t.tags,
                              target    |-> TargetInit(targs.filename,
                                                targs.stdout, targs.stderr),
                              formatter |-> [DefaultFormatter EXCEPT
                                                !.template = template] ])
                     @@ objs
           /\ raised' = IF t.raised THEN "ParameterValueError" ELSE "none"
    /\ op' = [NoOp EXCEPT !.kind = "Handler", !.id = id, !.tags = tags]
    /\ calls' = << >> /\ writes' = << >> /\ attempts' = << >>
    /\ UNCHANGED <<logHandlers, failing>>

\* Log(handlers=hs)
NewLog(hs) ==
    /\ Idle
    /\ hs # logHandlers
    /\ logHandlers' = hs
    /\ UNCHANGED <<objs, failing, op, calls, writes, attempts, raised>>

\* a sink starts to fail (a closed stream, a full disk) or works again
ToggleSink(s) ==
    /\ Idle
    /\ failing' = IF s \in failing THEN failing \ {s} ELSE failing \cup {s}
    /\ UNCHANGED <<objs, logHandlers, op, calls, writes, attempts, raised>>

\* log.log(message, *tags, **trace)
LogLogCall(message, tags, trace, now, order) ==
    /\ Idle
    /\ op' = [NoOp EXCEPT !.kind = "log", !.message = message, !.tags = tags,
                          !.trace = trace, !.now = now, !.order = order]
    /\ Outcome(LogLog(message, tags, trace, now, order))
    /\ UNCHANGED <<objs, logHandlers, failing>>

\* getattr(log, name)(message): the attribute itself when the Log has one of
\* that name (name is then "log", and the call is log.log(message)), else a
\* TaggedLog called with the message
LogGetattrCall(name, message, now) ==
    /\ Idle
    /\ IF name \in LogAttributes
       THEN /\ op' = [NoOp EXCEPT !.kind = "getattr", !.name = name,
                                  !.message = message, !.now = now]
            /\ Outcome(LogLog(message, << >>, NoTrace, now, << >>))
       ELSE LET tags == GetattrTags(name)
            IN  \E error \in IF <<"trace">> \in Range(tags) THEN FormatExc
                             ELSE {<< >>} :
                    LET a == TaggedLogCall(tags, message, error)
                    IN  \E order \in ItemsOrders(Routing(tags).handlers) :
                          /\ op' = [NoOp EXCEPT !.kind = "getattr",
                                        !.name = name, !.message = message,
                                        !.error = error, !.now = now,
                                        !.order = order]
                          /\ Outcome(LogLog(a.message, a.tags, a.trace, now,
                                            order))
    /\ UNCHANGED <<objs, logHandlers, failing>>

\* log(message): Log.__call__
LogCall(message, now) ==
    /\ Idle
    /\ op' = [NoOp EXCEPT !.kind = "call", !.message = message, !.now = now]
    /\ Outcome(HandlerLog("default", DefaultHandler, message, << <<"default">> >>,
                          now, now, NoTrace, failing))
    /\ UNCHANGED <<objs, logHandlers, failing>>

\* objs[id].log(message, tags, date, time, **trace), called directly
HandlerLogCall(id, message, tags, trace, now) ==
    /\ Idle
    /\ id \in DOMAIN objs
    /\ op' = [NoOp EXCEPT !.kind = "Handler.log", !.id = id,
                          !.message = message, !.tags = tags, !.trace = trace,
                          !.now = now]
    /\ Outcome(HandlerLog(id, objs[id], message, tags, now, now, trace, failing))
    /\ UNCHANGED <<objs, logHandlers, failing>>

\* objs[id].target.log(message), called directly
TargetLogCall(id, message) ==
    /\ Idle
    /\ id \in DOMAIN objs
    /\ op' = [NoOp EXCEPT !.kind = "Target.log", !.id = id, !.message = message]
    /\ Outcome([calls |-> << >>] @@ TargetLog(objs[id].target.targets, message,
                                              failing))
    /\ UNCHANGED <<objs, logHandlers, failing>>

\* the record of the last operation is dropped before the next is issued
Forget ==
    /\ ~Idle
    /\ op' = NoOp
    /\ Outcome(NoCalls)
    /\ UNCHANGED <<objs, logHandlers, failing>>

LogSinks == {"stdout", "stderr"}

\* the operations on a Log and its Handlers
Next ==
    \/ Idle /\ \E id \in HandlerIds, tags \in HandlerTags :
            NewHandler(id, tags, LogTargetArgs(id), DefaultFormatter.template)
    \/ Idle /\ \E hs \in SeqsUpTo(DOMAIN objs, Cardinality(HandlerIds)) :
            NewLog(hs)
    \/ Idle /\ \E s \in LogSinks : ToggleSink(s)
    \/ Idle /\ \E message \in LogMessages, tags \in TagLists, trace \in Traces,
                  now \in Clock :
            \E order \in ItemsOrders(Routing(tags).handlers) :
                LogLogCall(message, tags, trace, now, order)
    \/ Idle /\ \E name \in Names, message \in LogMessages, now \in Clock :
            LogGetattrCall(name, message, now)
    \/ Idle /\ \E message \in LogMessages, now \in Clock :
            LogCall(message, now)
    \/ Forget

Spec == Init /\ [][Next]_vars

\* the operations on one Handler, its Formatter and its Target
NextHandler ==
    \/ Idle /\ \E tags \in HandlerTags, targs \in TargetArgs,
                  template \in Templates :
            NewHandler("h1", tags, targs, template)
    \/ Idle /\ \E s \in Sinks : ToggleSink(s)
    \/ Idle /\ \E id \in HandlerIds, message \in Messages, tags \in TagLists,
                  trace \in Traces, now \in Clock :
            HandlerLogCall(id, message, tags, trace, now)
    \/ Idle /\ \E id \in HandlerIds, message \in Messages :
            TargetLogCall(id, message)
    \/ Forget

SpecHandler == Init /\ [][NextHandler]_vars

\* ------------------------------------------ vocabulary of the properties

\* the last operation ran Log.log (directly, or through an attribute of the Log)
IsLogCall == op.kind \in {"log", "getattr"}

\* the maximal runs of chunks other than "_" in a name, from left to right
RunStarts(name) ==
    {i \in DOMAIN name : name[i] # "_" /\ (i = 1 \/ name[i - 1] = "_")}
RunEnd(name, i) ==
    CHOOSE j \in i..Len(name) :
        /\ \A k \in i..j : name[k] # "_"
        /\ (j = Len(name) \/ name[j + 1] = "_")
RECURSIVE RunsFrom(_, _)
RunsFrom(name, starts) ==
    IF starts = {} THEN << >>
    ELSE LET i == CHOOSE k \in starts : \A l \in starts : k <= l
         IN  <<SubSeq(name, i, RunEnd(name, i))>>
                \o RunsFrom(name, starts \ {i})
Runs(name) == RunsFrom(name, RunStarts(name))

\* the tag list C, the message and the trace keywords of that Log.log call as
\* the caller wrote them
CallTagList ==
    IF op.kind = "log" THEN op.tags
    ELSE IF op.name \in LogAttributes THEN << >> ELSE Runs(op.name)

\* the tag set T of a configured Handler
TagSet(h) == Range(objs[h].tags)

\* the tags of C in no configured Handler's tag set, in the order of C
Unmatched ==
    SelectSeq(CallTagList,
              LAMBDA t : \A h \in Range(logHandlers) : t \notin TagSet(h))

\* the configured Handlers with at least one tag of C in their tag set
Matched ==
    LET C == Range(CallTagList)
    IN  {h \in Range(logHandlers) : C \cap TagSet(h) # {}}

\* how often Handler.log was invoked on h
Invocations(h) == Cardinality({i \in DOMAIN calls : calls[i].handler = h})

DefaultInvoked == \E i \in DOMAIN calls : calls[i].handler = "default"

\* C1: in a Log.log call with tags C, every invoked configured Handler with tag
\* set T is passed the tags of C that are in T and no others; it is passed all
\* of C only when every tag of C is in T
C1_HandlerReceivesOwnTags ==
    IsLogCall =>
        LET C == Range(CallTagList)
        IN  \A i \in DOMAIN calls :
                calls[i].handler \in HandlerIds =>
                    LET T == TagSet(calls[i].handler)
                    IN  /\ Range(calls[i].tags) = C \cap T
                        /\ Range(calls[i].tags) = C => C \subseteq T

\* a log call with a tag in one Handler's tag set and a tag outside it
C1_Witness ==
    /\ op.kind = "log"
    /\ \E i \in DOMAIN calls :
          /\ calls[i].handler \in HandlerIds
          /\ Range(calls[i].tags) # Range(op.tags)
          /\ \E j \in DOMAIN calls : j # i /\ calls[j].handler \in HandlerIds

\* C2 as stated: the default Handler is invoked exactly when some tag of C is
\* in no configured Handler's tag set, and is passed exactly those tags
C2_DefaultIffUnmatched ==
    IsLogCall =>
        /\ DefaultInvoked <=> Unmatched # << >>
        /\ \A i \in DOMAIN calls :
              calls[i].handler = "default" => calls[i].tags = Unmatched

\* C3 as stated: Handler.log is invoked once on every configured Handler that
\* matched a tag of C and never on the others
C3_OncePerMatchedHandler ==
    IsLogCall =>
        \A h \in Range(logHandlers) :
            Invocations(h) = IF h \in Matched THEN 1 ELSE 0

EndsWithOneNewline(text) ==
    /\ Len(text) >= 1
    /\ text[Len(text)] = NL
    /\ Len(text) >= 2 => text[Len(text) - 1] # NL

\* C4 as stated: the text Handler.log passes to Target.log ends with exactly one
\* newline
C4_ExactlyOneNewline ==
    \A i \in DOMAIN calls : EndsWithOneNewline(calls[i].text)

\* C5 as stated: in Target.log, write is called on every sink after one whose
\* write failed
C5_FailureIsolated ==
    op.kind = "Target.log" => attempts = objs[op.id].target.targets

\* C6: no Handler object has an empty tags tuple, none is held by the Log, and
\* constructing one with an empty tags tuple ends with ParameterValueError
C6_NoEmptyTagSet ==
    /\ \A id \in DOMAIN objs : Len(objs[id].tags) > 0
    /\ \A i \in DOMAIN logHandlers :
          logHandlers[i] \in DOMAIN objs /\ Len(objs[logHandlers[i]].tags) > 0
    /\ (op.kind = "Handler" /\ Len(op.tags) = 0)
          => raised = "ParameterValueError" /\ op.id \notin DOMAIN objs

\* an empty tags tuple was refused while the Log holds Handlers
C6_Witness ==
    /\ op.kind = "Handler"
    /\ op.tags = << >>
    /\ raised = "ParameterValueError"
    /\ logHandlers # << >>

\* the outcome of the last operation
Observed ==
    [ calls |-> calls, writes |-> writes, attempts |-> attempts,
      raised |-> raised = "IOError" ]

IsTaggedCall == op.kind = "getattr" /\ op.name \notin LogAttributes

\* C7 as stated: for every name that is no attribute of the Log, the looked-up
\* object called with a message does what Log.log(message, *runs of the name)
\* does
C7_TaggedLogIsLog ==
    IsTaggedCall =>
        Observed = LogLog(op.message, Runs(op.name), NoTrace, op.now, op.order)

\* C7 as amended: so it is when no run of the name is "trace"; when one is, the
\* call is Log.log with the caller's file, line and module as trace keywords
\* and, unless format_exc() gave "None\n", with a newline and that text appended
\* to the message
C7_TaggedLogIsLogUnlessTrace ==
    IsTaggedCall =>
        LET tags == Runs(op.name)
        IN  Observed =
                IF <<"trace">> \notin Range(tags)
                THEN LogLog(op.message, tags, NoTrace, op.now, op.order)
                ELSE LogLog(IF op.error = <<"None", NL>> THEN op.message
                            ELSE op.message \o <<NL>> \o op.error,
                            tags, CallerTrace, op.now, op.order)

\* a name with an empty component and two tags in order, none of them "trace",
\* whose call reached a Handler
C7_Witness ==
    /\ IsTaggedCall
    /\ op.name[1] = "_"
    /\ Runs(op.name) = << <<"x">>, <<"y">> >>
    /\ Len(calls) = 2

\* the sinks of a Target, by its arguments: the file, then stdout, then stderr
SinksInOrder(target) ==
    SelectSeq(<<target.filename, "stdout", "stderr">>,
              LAMBDA s : \/ s = target.filename /\ target.filename # ""
                         \/ s = "stdout" /\ target.stdout
                         \/ s = "stderr" /\ target.stderr)

\* C8 as stated: the sinks of a Target are the file, then stdout, then stderr,
\* as constructed; Target.log writes the text once to each of them that can be
\* written, in that order, and to nothing else; a Target without sinks writes
\* nothing and raises nothing
C8_WritesEachSinkInOrder ==
    op.kind = "Target.log" =>
        LET sinks == SinksInOrder(objs[op.id].target)
            open  == SelectSeq(sinks, LAMBDA s : s \notin failing)
        IN  /\ objs[op.id].target.targets = sinks
            /\ writes = [i \in DOMAIN open |->
                            [sink |-> open[i], text |-> op.message]]
            /\ sinks = << >> => raised = "none"

\* the trace keywords the Log.log call was given
CallTrace ==
    IF op.kind = "log" THEN op.trace
    ELSE IF IsTaggedCall /\ <<"trace">> \in Range(Runs(op.name)) THEN CallerTrace
    ELSE NoTrace

\* a text that shows the caller's file, line or module
ShowsTrace(text) ==
    \E i \in DOMAIN text :
        \E k \in DOMAIN CallerTrace : text[i] \in Range(CallerTrace[k])

\* C9: in a Log.log call every invocation of a configured Handler carries no
\* trace keywords and writes no trace, the invocation of the default Handler
\* carries those of the call, and a sink is written the trace only if some tag
\* of the call is unmatched
C9_TraceOnlyToDefault ==
    IsLogCall =>
        /\ \A i \in DOMAIN calls :
              /\ calls[i].handler \in HandlerIds
                    => calls[i].trace = NoTrace /\ ~ShowsTrace(calls[i].text)
              /\ calls[i].handler = "default" => calls[i].trace = CallTrace
        /\ (\E i \in DOMAIN writes : ShowsTrace(writes[i].text))
              => Unmatched # << >>

\* a TaggedLog call with "trace" among its tags that reached a configured
\* Handler, and the default Handler with the caller's trace
C9_Witness ==
    /\ IsTaggedCall
    /\ <<"trace">> \in Range(Runs(op.name))
    /\ \E i, j \in DOMAIN calls :
          /\ calls[i].handler \in HandlerIds
          /\ <<"trace">> \in Range(calls[i].tags)
          /\ calls[j].handler = "default"
          /\ calls[j].trace = CallerTrace
          /\ \E w \in DOMAIN writes : ShowsTrace(writes[w].text)

====
